---- MODULE Spec2Model ----
(***************************************************************************)
(* Verification model of the news updater (update-news.js) and the static  *)
(* file server (server.js).                                                *)
(*                                                                         *)
(* The HTML document is a sequence of tokens.  A token is a maximal piece  *)
(* of text that the two regular expressions of the updater treat as a unit *)
(* (a tag they name, a run of white space, a run of text without '<').     *)
(* Card titles and descriptions are sequences of characters.               *)
(***************************************************************************)
EXTENDS Integers, Sequences, FiniteSets, TLC

VARIABLES
    \* ---- replaceSection applied to a document (once, then again)
    rHtml, rId, rCards, rOnce, rTwice, rPc,
    \* ---- updateLastModified applied to a document
    sHtml, sOut, sPc,
    \* ---- buildCards' title / description rendering of one article
    article, cardTitle, cardDesc, cPc,
    \* ---- one run of main()
    NEWS_API_KEY, disk, promise, inflight, requests, delivered, settleLog,
    pc, html, readHtml, usArticles, chinaArticles, log, caught, mainPromise,
    \* ---- the static server
    req, files

replaceVars == <<rHtml, rId, rCards, rOnce, rTwice, rPc>>
stampVars   == <<sHtml, sOut, sPc>>
cardVars    == <<article, cardTitle, cardDesc, cPc>>
mainVars    == <<NEWS_API_KEY, disk, promise, inflight, requests, delivered,
                 settleLog, pc, html, readHtml, usArticles, chinaArticles,
                 log, caught, mainPromise>>
serverVars  == <<req, files>>
vars == <<replaceVars, stampVars, cardVars, mainVars, serverVars>>

-----------------------------------------------------------------------------
(* Bounds of the model *)

\* articles a fetch can return (the provider is asked for pageSize 5)
MaxArticles == 2
\* cards already present in a section's card-grid on disk
MaxOldCards == 2
\* tokens of a document given to updateLastModified
MaxStampLen == 4
\* a title or description has between limit - Window and limit + 1
\* characters before its first quote, then up to MaxQuotes quotes, then up
\* to MaxTail more characters
Window == 6
MaxQuotes == 2
MaxTail == 2
\* requests the server has in hand at once
MaxRequests == 2

-----------------------------------------------------------------------------
(* Document tokens *)

Topics == {"us", "china"}

\* <div id="${sectionId}" class="section[^"]*">
SectionOpen(sectionId) == "<div id=" \o sectionId \o " class=section>"
\* <div class="card-grid">
GRID == "<div class=card-grid>"
\* any other opening <div ...>
DIVOPEN == "<div>"
\* </div>
CLOSE == "</div>"
\* any other tag; like every tag it starts with '<'
TAG == "<p>"
\* a run of text without '<' and without white space
TEXT == "text"
\* the label of the timestamp and two dates
LABEL == "Last Updated: "
OLDDATE == "January 1, 2020"
TODAY == "today's date"
\* white space: a newline followed by 0, 12, 16, 20, 24 blanks
NL == "\\n"
NL12 == "\\n+12"
NL16 == "\\n+16"
NL20 == "\\n+20"
NL24 == "\\n+24"
Space == {NL, NL12, NL16, NL20, NL24}

\* the emoji main passes to buildCards for each topic
Emoji(topic) == IF topic = "us" THEN "robot" ELSE "microscope"

Articles == {"a" \o ToString(i) : i \in 1..MaxArticles}
OldArticles == [i \in 1..MaxOldCards |-> "old" \o ToString(i)]

\* the text of one card from <div class="card fade-in"> to Read More</a>:
\* it opens the card, card-content and card-footer divs and leaves them open
CardOpen(a, emoji) == "<card " \o emoji \o " " \o a \o ">"

RECURSIVE Join(_, _)
\* Array.prototype.join: the elements of a sequence of sequences, sep between
Join(seqs, sep) ==
    IF Len(seqs) = 0 THEN <<>>
    ELSE IF Len(seqs) = 1 THEN seqs[1]
    ELSE seqs[1] \o sep \o Join(Tail(seqs), sep)

\* one card of the template literal
Card(a, emoji) ==
    <<NL16, CardOpen(a, emoji), NL24, CLOSE, NL20, CLOSE, NL16, CLOSE>>

buildCards(articles, emoji) ==
    IF Len(articles) = 0 THEN <<>>
    ELSE Join([i \in 1..Len(articles) |-> Card(articles[i], emoji)], <<NL>>)

-----------------------------------------------------------------------------
(* replaceSection: the regular expression, token by token *)

RECURSIVE SkipSpace(_, _)
\* \s* is greedy: the first position at or after i that holds no white space
SkipSpace(h, i) ==
    IF i <= Len(h) /\ h[i] \in Space THEN SkipSpace(h, i + 1) ELSE i

\* </div>\s*</div>\s*</div> matches from position c; its last position
CloseEnd(h, c) ==
    LET c2 == SkipSpace(h, c + 1)
        c3 == SkipSpace(h, c2 + 1)
    IN  IF /\ c <= Len(h) /\ h[c] = CLOSE
           /\ c2 <= Len(h) /\ h[c2] = CLOSE
           /\ c3 <= Len(h) /\ h[c3] = CLOSE
        THEN c3 ELSE 0

Min(S) == CHOOSE x \in S : \A y \in S : x <= y

\* the positions c > g where the closing group matches
ClosesAfter(h, g) == {c \in (g + 1)..Len(h) : CloseEnd(h, c) # 0}

\* the positions of a card-grid tag after s from which the rest still matches
GridsAfter(h, s) ==
    {g \in (s + 1)..Len(h) : h[g] = GRID /\ ClosesAfter(h, g) # {}}

\* the expression without the id in it
MatchStartsAnySection(h, sectionId) ==
    {s \in 1..Len(h) :
        h[s] \in {SectionOpen(t) : t \in Topics} /\ GridsAfter(h, s) # {}}

\* the positions where the whole expression matches
MatchStarts(h, sectionId) ==
    {s \in 1..Len(h) : h[s] = SectionOpen(sectionId) /\ GridsAfter(h, s) # {}}

replaceSection(h, sectionId, newCards) ==
    IF MatchStarts(h, sectionId) = {} THEN h
    ELSE LET s == Min(MatchStarts(h, sectionId))   \* leftmost match
             g == Min(GridsAfter(h, s))            \* .*? is lazy
             c == Min(ClosesAfter(h, g))           \* (.*?) is lazy
             e == CloseEnd(h, c)
         IN  SubSeq(h, 1, g) \o <<NL>> \o newCards \o <<NL12>>
                \o SubSeq(h, c, e) \o SubSeq(h, e + 1, Len(h))

-----------------------------------------------------------------------------
(* updateLastModified: /Last Updated: [^<]+/ replaced once *)

\* the tokens that hold no '<'
NoLt == Space \cup {TEXT, LABEL, OLDDATE, TODAY}

RECURSIVE RunEnd(_, _)
\* [^<]+ is greedy: the last position of the run of '<'-free tokens from i
RunEnd(h, i) ==
    IF i + 1 <= Len(h) /\ h[i + 1] \in NoLt THEN RunEnd(h, i + 1) ELSE i

\* the expression with [^<]* for [^<]+
LabelStartsAnyRun(h) == {i \in 1..Len(h) : h[i] = LABEL}

\* the positions where the expression matches: the label and at least one
\* character other than '<' after it
LabelStarts(h) ==
    {i \in 1..Len(h) : h[i] = LABEL /\ i + 1 <= Len(h) /\ h[i + 1] \in NoLt}

updateLastModified(h) ==
    IF LabelStarts(h) = {} THEN h
    ELSE LET i == Min(LabelStarts(h))
             j == RunEnd(h, i + 1)
         IN  SubSeq(h, 1, i - 1) \o <<LABEL, TODAY>> \o SubSeq(h, j + 1, Len(h))

-----------------------------------------------------------------------------
(* The documents index.html is drawn from *)

\* a section as index.html holds it: absent, without a card-grid (the markup
\* was restructured), or with a card-grid of k cards inside a container div
SectionShapes ==
    {[kind |-> "absent", cards |-> 0], [kind |-> "nogrid", cards |-> 0]}
        \cup {[kind |-> "grid", cards |-> k] : k \in 0..MaxOldCards}

Section(topic, shape) ==
    CASE shape.kind = "absent" -> <<>>
      [] shape.kind = "nogrid" ->
            <<SectionOpen(topic), NL, TAG, TEXT, NL, CLOSE>>
      [] OTHER ->
            <<SectionOpen(topic), NL, DIVOPEN, NL, GRID>>
                \o buildCards(SubSeq(OldArticles, 1, shape.cards), Emoji(topic))
                \o <<NL12, CLOSE, NL, CLOSE, NL, CLOSE>>

Footers == {<<NL, TAG>>, <<NL, TAG, LABEL, OLDDATE, TAG>>}

Documents ==
    {<<TAG, NL>> \o Section(first, s1) \o <<NL>>
            \o Section(CHOOSE t \in Topics : t # first, s2) \o foot :
        first \in Topics, s1 \in SectionShapes, s2 \in SectionShapes,
        foot \in Footers}

\* the article lists a fetch can resolve to
ArticleLists == UNION {[1..n -> Articles] : n \in 0..MaxArticles}

-----------------------------------------------------------------------------
(* Reading a document: helpers of the properties, not of the program *)

Other(topic) == CHOOSE t \in Topics : t # topic

Has(h, tok) == \E i \in 1..Len(h) : h[i] = tok

CardTokens ==
    {CardOpen(a, Emoji(t)) :
        a \in Articles \cup {OldArticles[i] : i \in 1..MaxOldCards}, t \in Topics}

\* how many divs a token opens (+) or closes (-)
Nesting(tok) ==
    IF tok = CLOSE THEN -1
    ELSE IF tok \in CardTokens THEN 3
    ELSE IF tok \in {GRID, DIVOPEN} \cup {SectionOpen(t) : t \in Topics} THEN 1
    ELSE 0

RECURSIVE CloseOf(_, _, _)
\* the position of the </div> that closes what is open at depth d after i
CloseOf(h, i, d) ==
    IF i > Len(h) THEN Len(h)
    ELSE IF d + Nesting(h[i]) = 0 THEN i
    ELSE CloseOf(h, i + 1, d + Nesting(h[i]))

First(h, tok, from) == Min({i \in from..Len(h) : h[i] = tok} \cup {Len(h) + 1})

\* the text of a section, from its opening tag to the </div> that closes it
SectionText(h, topic) ==
    LET s == First(h, SectionOpen(topic), 1)
    IN  IF s > Len(h) THEN <<>> ELSE SubSeq(h, s, CloseOf(h, s, 0))

\* what the card-grid of a section holds, between its tag and its </div>
GridContent(h, topic) ==
    LET sec == SectionText(h, topic)
        g == First(sec, GRID, 1)
    IN  IF g > Len(sec) THEN <<>> ELSE SubSeq(sec, g + 1, CloseOf(sec, g, 0) - 1)

NoSpace(h) == SelectSeq(h, LAMBDA tok : tok \notin Space)

OldCardsOf(h) ==
    {h[i] : i \in {j \in 1..Len(h) : h[j] \in CardTokens}}

-----------------------------------------------------------------------------
(* fetchNews: the promise, the request and the response body *)

\* the article lists a response body can carry: the first k articles
BodyArticles == {SubSeq([i \in 1..MaxArticles |-> "a" \o ToString(i)], 1, k) :
                    k \in 0..MaxArticles}

\* the text of a response body, by what JSON.parse makes of it: text that is
\* no JSON, the JSON texts null and 42, and a JSON object with or without a
\* status and an articles field (an array, null, or absent).  The empty text
\* is what data holds when no chunk arrived.
Body(syntax, status, field, articles) ==
    [syntax |-> syntax, status |-> status, field |-> field,
     articles |-> articles]
EmptyBody == Body("empty", "none", "absent", <<>>)
Bodies ==
    {Body(x, "none", "absent", <<>>) : x \in {"garbage", "null", "number", "object"}}
        \cup {Body("object", "ok", "array", l) : l \in BodyArticles}
        \cup {Body("object", "ok", "absent", <<>>),
              Body("object", "ok", "null", <<>>),
              Body("object", "error", "absent", <<>>),
              Body("object", "error", "array", <<"a1">>)}

\* JSON.parse(data): throws a SyntaxError on text that is no JSON
JSONParse(data) ==
    IF data.syntax \in {"garbage", "empty"}
    THEN [threw |-> TRUE, json |-> EmptyBody]
    ELSE [threw |-> FALSE, json |-> data]

\* a promise and what it settled with
Pending == [state |-> "pending", value |-> <<>>, reason |-> ""]
Resolved(value) == [state |-> "fulfilled", value |-> value, reason |-> ""]
Rejected(reason) == [state |-> "rejected", value |-> <<>>, reason |-> reason]

\* resolve and reject settle a pending promise and do nothing to a settled one
Settle(p, outcome) == IF p.state = "pending" THEN outcome ELSE p

\* the handler without its test of the status
OnEndAnyStatus(data) ==
    LET parsed == JSONParse(data)
    IN  IF parsed.threw THEN Rejected("SyntaxError")
        ELSE IF parsed.json.syntax = "null" THEN Rejected("TypeError")
        ELSE Resolved(IF parsed.json.field = "array" THEN parsed.json.articles
                      ELSE <<>>)

\* the body of the res 'end' handler: try { parse, test status } catch { reject }
OnEnd(data) ==
    LET parsed == JSONParse(data)
    IN  IF parsed.threw THEN Rejected("SyntaxError")
        ELSE IF parsed.json.syntax = "null" THEN Rejected("TypeError")
        ELSE IF parsed.json.status = "ok"
        THEN Resolved(IF parsed.json.field = "array" THEN parsed.json.articles
                      ELSE <<>>)
        ELSE Resolved(<<>>)

\* the request of one fetchNews call: not made, waiting for the response,
\* receiving the body into data, over
NoRequest == [stage |-> "none", data |-> EmptyBody]
Requested == [stage |-> "requested", data |-> EmptyBody]
Closed == [stage |-> "closed", data |-> EmptyBody]

\* what the network handed to the callbacks of a call
Nothing == [kind |-> "nothing", data |-> EmptyBody]
NetworkError == [kind |-> "error", data |-> EmptyBody]
Ended(data) == [kind |-> "end", data |-> data]

\* Promise.allSettled in the place of Promise.all
PromiseAllSettled(ps) ==
    IF \A t \in Topics : ps[t].state # "pending" THEN "fulfilled" ELSE "pending"

\* Promise.all of the two promises
PromiseAll(ps) ==
    IF \E t \in Topics : ps[t].state = "rejected" THEN "rejected"
    ELSE IF \A t \in Topics : ps[t].state = "fulfilled" THEN "fulfilled"
    ELSE "pending"

-----------------------------------------------------------------------------
(* Values of the variables a specification does not use *)

IdleReplace ==
    /\ rHtml = <<>> /\ rId = "us" /\ rCards = <<>>
    /\ rOnce = <<>> /\ rTwice = <<>> /\ rPc = "idle"
IdleStamp == sHtml = <<>> /\ sOut = <<>> /\ sPc = "idle"
IdleCards ==
    /\ article = [title |-> <<>>, description |-> <<>>, content |-> <<>>]
    /\ cardTitle = <<>> /\ cardDesc = <<>> /\ cPc = "idle"
IdleMain ==
    /\ NEWS_API_KEY = "" /\ disk = <<>>
    /\ promise = [t \in Topics |-> Pending]
    /\ inflight = [t \in Topics |-> NoRequest]
    /\ requests = [t \in Topics |-> 0]
    /\ delivered = [t \in Topics |-> Nothing]
    /\ settleLog = [t \in Topics |-> <<>>]
    /\ pc = "idle" /\ html = <<>> /\ readHtml = <<>>
    /\ usArticles = <<>> /\ chinaArticles = <<>>
    /\ log = <<>> /\ caught = FALSE /\ mainPromise = "pending"
IdleServer == req = <<>> /\ files = {}


-----------------------------------------------------------------------------
(* replaceSection applied once and then again to a document *)

InitReplace ==
    /\ rHtml \in Documents
    /\ rId \in Topics
    /\ rCards \in {buildCards(l, Emoji(rId)) : l \in ArticleLists \ {<<>>}}
    /\ rOnce = <<>> /\ rTwice = <<>> /\ rPc = "input"
    /\ IdleStamp /\ IdleCards /\ IdleMain /\ IdleServer

ReplaceOnce ==
    /\ rPc = "input"
    /\ rOnce' = replaceSection(rHtml, rId, rCards)
    /\ rPc' = "once"
    /\ UNCHANGED <<rHtml, rId, rCards, rTwice>>
    /\ UNCHANGED <<stampVars, cardVars, mainVars, serverVars>>

ReplaceAgain ==
    /\ rPc = "once"
    /\ rTwice' = replaceSection(rOnce, rId, rCards)
    /\ rPc' = "twice"
    /\ UNCHANGED <<rHtml, rId, rCards, rOnce>>
    /\ UNCHANGED <<stampVars, cardVars, mainVars, serverVars>>

NextReplace == ReplaceOnce \/ ReplaceAgain

SpecReplace == InitReplace /\ [][NextReplace]_vars

\* C1: replaceSection is idempotent for identical card content: applying it
\* twice with the same cards to a document that holds the section marker
\* gives the document one application gives.
C1_Idempotent ==
    (rPc = "twice" /\ Has(rHtml, SectionOpen(rId))) => rTwice = rOnce

\* C2: a section's card-grid is fully replaced: when the section holds one or
\* more cards, after replaceSection its card-grid holds exactly the new
\* cards, and no card that was in the document's section is left anywhere.
C2_FullyReplaced ==
    (rPc = "once" /\ OldCardsOf(GridContent(rHtml, rId)) # {}) =>
        /\ NoSpace(GridContent(rOnce, rId)) = NoSpace(rCards)
        /\ \A i \in 1..Len(rOnce) :
              rOnce[i] \notin OldCardsOf(GridContent(rHtml, rId))

\* C5: when the section marker for the id does not occur in the document,
\* replaceSection returns the document unchanged, whatever the cards.
C5_AbsentMarkerNoOp ==
    (rPc # "input" /\ ~Has(rHtml, SectionOpen(rId))) =>
        /\ rOnce = rHtml
        /\ rPc = "twice" => rTwice = rHtml

\* C5 witness: the marker is absent, the other section and its card-grid are
\* there, and replaceSection has run.
C5_Witness ==
    /\ rPc = "once"
    /\ ~Has(rHtml, SectionOpen(rId))
    /\ OldCardsOf(GridContent(rHtml, Other(rId))) # {}
    /\ rOnce = rHtml

\* C10: replaceSection never reaches into the other section: when the
\* document holds both section markers, replacing one topic's section leaves
\* the text of the other topic's section as it was.
C10_NoOverMatch ==
    (rPc = "once" /\ \A t \in Topics : Has(rHtml, SectionOpen(t))) =>
        SectionText(rOnce, Other(rId)) = SectionText(rHtml, Other(rId))

-----------------------------------------------------------------------------
(* updateLastModified applied to a document *)

StampTokens == {LABEL, OLDDATE, TEXT, TAG}

StampDocuments == UNION {[1..n -> StampTokens] : n \in 0..MaxStampLen}

InitStamp ==
    /\ sHtml \in StampDocuments
    /\ sOut = <<>> /\ sPc = "input"
    /\ IdleReplace /\ IdleCards /\ IdleMain /\ IdleServer

UpdateStamp ==
    /\ sPc = "input"
    /\ sOut' = updateLastModified(sHtml)
    /\ sPc' = "done"
    /\ UNCHANGED sHtml
    /\ UNCHANGED <<replaceVars, cardVars, mainVars, serverVars>>

NextStamp == UpdateStamp

SpecStamp == InitStamp /\ [][NextStamp]_vars

\* the position of the next token after i that starts with '<'
NextLt(h, i) == Min({j \in (i + 1)..Len(h) : h[j] \notin NoLt} \cup {Len(h) + 1})

Count(h, tok) == Cardinality({i \in 1..Len(h) : h[i] = tok})

\* C7 as stated: updateLastModified changes only the run after the first
\* occurrence of the label: the text before the first label and the text
\* from the next '<' onward are unchanged, the run between them becomes
\* today's date, later occurrences of the label are untouched, and a
\* document without the label is returned unchanged.
C7_FirstLabelRun ==
    sPc = "done" =>
        LET i == First(sHtml, LABEL, 1)
        IN  IF i > Len(sHtml) THEN sOut = sHtml
            ELSE /\ sOut = SubSeq(sHtml, 1, i - 1) \o <<LABEL, TODAY>>
                        \o SubSeq(sHtml, NextLt(sHtml, i), Len(sHtml))
                 /\ Count(sOut, LABEL) = Count(sHtml, LABEL)

\* a label that has at least one character other than '<' right after it
Dated(h, i) == h[i] = LABEL /\ i < Len(h) /\ h[i + 1] \in NoLt

\* C7 as amended: updateLastModified changes only the run after the first
\* label that is followed by at least one character other than '<'.  The
\* text before that label and the text from the next '<' onward are
\* unchanged, the run between them (further labels in it included) becomes
\* today's date, and a document with no such label is returned unchanged.
C7_FirstDatedRun ==
    sPc = "done" =>
        \/ /\ \A i \in 1..Len(sHtml) : ~Dated(sHtml, i)
           /\ sOut = sHtml
        \/ \E i \in 1..Len(sHtml) :
              /\ Dated(sHtml, i)
              /\ \A k \in 1..(i - 1) : ~Dated(sHtml, k)
              /\ Len(sOut) = (i + 1) + (Len(sHtml) - NextLt(sHtml, i) + 1)
              /\ \A k \in 1..(i - 1) : sOut[k] = sHtml[k]
              /\ sOut[i] = LABEL /\ sOut[i + 1] = TODAY
              /\ \A k \in NextLt(sHtml, i)..Len(sHtml) :
                    sOut[k - NextLt(sHtml, i) + i + 2] = sHtml[k]

\* C7 witness: the first label has a tag right after it, a later label has
\* a date, and the update has rewritten the later one.
C7_Witness ==
    /\ sPc = "done"
    /\ Len(sHtml) = 4
    /\ sHtml[1] = LABEL /\ sHtml[2] = TAG /\ sHtml[3] = LABEL
    /\ sHtml[4] = OLDDATE
    /\ sOut = <<LABEL, TAG, LABEL, TODAY>>

-----------------------------------------------------------------------------
(* buildCards: the title and the description of a card, in characters *)

QUOTE == "\""

\* .slice(0, 80) of the title, .slice(0, 200) of the description
TitleLimit == 80
DescLimit == 200

\* '&quot;'
Entity == <<"&", "q", "u", "o", "t", ";">>

\* the text used when an article has neither description nor content
NoContent == <<"k1", "k2", " ", "k3", "k4">>

RECURSIVE EscapeQuotes(_)
\* .replace(/"/g, '&quot;')
EscapeQuotes(str) ==
    IF Len(str) = 0 THEN <<>>
    ELSE IF Len(str) = 1 THEN (IF str[1] = QUOTE THEN Entity ELSE str)
    ELSE EscapeQuotes(SubSeq(str, 1, Len(str) \div 2))
            \o EscapeQuotes(SubSeq(str, Len(str) \div 2 + 1, Len(str)))

\* .slice(0, n)
Slice(str, n) == SubSeq(str, 1, IF n < Len(str) THEN n ELSE Len(str))

\* x || y on strings: the empty string (like a missing field) is falsy
OrElse(x, y) == IF Len(x) = 0 THEN y ELSE x

\* const title = (a.title || '').replace(/"/g, '&quot;').slice(0, 80);
RenderTitle(a) == Slice(EscapeQuotes(OrElse(a.title, <<>>)), TitleLimit)

\* the text the description is made of
DescSource(a) == OrElse(a.description, OrElse(a.content, NoContent))

\* const desc = (a.description || a.content || '...')
\*                  .replace(/"/g, '&quot;').slice(0, 200);
RenderDesc(a) == Slice(EscapeQuotes(DescSource(a)), DescLimit)

Rep(ch, n) == [i \in 1..n |-> ch]

Texts(limit) ==
    {Rep("a", n) \o Rep(QUOTE, k) \o Rep("b", m) :
        n \in {0} \cup ((limit - Window)..(limit + 1)),
        k \in 0..MaxQuotes, m \in 0..MaxTail}

InitCards ==
    /\ \/ article \in [title : Texts(TitleLimit), description : {<<>>},
                       content : {<<>>}]
       \/ article \in [title : {<<>>}, description : Texts(DescLimit),
                       content : {<<>>, <<"c", QUOTE>>}]
    /\ cardTitle = <<>> /\ cardDesc = <<>> /\ cPc = "input"
    /\ IdleReplace /\ IdleStamp /\ IdleMain /\ IdleServer

RenderCard ==
    /\ cPc = "input"
    /\ cardTitle' = RenderTitle(article)
    /\ cardDesc' = RenderDesc(article)
    /\ cPc' = "rendered"
    /\ UNCHANGED article
    /\ UNCHANGED <<replaceVars, stampVars, mainVars, serverVars>>

NextCards == RenderCard

SpecCards == InitCards /\ [][NextCards]_vars

\* C6: the title of a card is the article's title cut to 80 characters and
\* then quote-escaped, so every quote of the kept title is a whole &quot;
\* and a title longer than 80 characters is rendered as 80 characters plus
\* the growth of the escaping; likewise the description with 200.
C6_TruncateThenEscape ==
    cPc = "rendered" =>
        /\ cardTitle = EscapeQuotes(Slice(OrElse(article.title, <<>>), TitleLimit))
        /\ cardDesc = EscapeQuotes(Slice(DescSource(article), DescLimit))

-----------------------------------------------------------------------------
(* One run of main() *)

Init ==
    /\ NEWS_API_KEY \in {"", "key"}
    /\ disk \in Documents
    /\ promise = [t \in Topics |-> Pending]
    /\ inflight = [t \in Topics |-> NoRequest]
    /\ requests = [t \in Topics |-> 0]
    /\ delivered = [t \in Topics |-> Nothing]
    /\ settleLog = [t \in Topics |-> <<>>]
    /\ pc = "start" /\ html = <<>> /\ readHtml = <<>>
    /\ usArticles = <<>> /\ chinaArticles = <<>>
    /\ log = <<>> /\ caught = FALSE /\ mainPromise = "pending"
    /\ IdleReplace /\ IdleStamp /\ IdleCards /\ IdleServer

\* what a settlement adds to the record of a promise's settlements
Logged(p, outcome) == IF p.state = "pending" THEN <<outcome.state>> ELSE <<>>

\* main up to its await: both fetchNews executors run.  Without a key each
\* resolves to [] at once; with a key each issues its GET.
MainStart ==
    /\ pc = "start"
    /\ pc' = "await"
    /\ IF NEWS_API_KEY = ""
       THEN /\ promise' = [t \in Topics |-> Settle(promise[t], Resolved(<<>>))]
            /\ settleLog' = [t \in Topics |->
                    settleLog[t] \o Logged(promise[t], Resolved(<<>>))]
            /\ UNCHANGED <<inflight, requests>>
       ELSE /\ inflight' = [t \in Topics |-> Requested]
            /\ requests' = [t \in Topics |-> requests[t] + 1]
            /\ UNCHANGED <<promise, settleLog>>
    /\ UNCHANGED <<NEWS_API_KEY, disk, delivered, html, readHtml, usArticles,
                   chinaArticles, log, caught, mainPromise>>
    /\ UNCHANGED <<replaceVars, stampVars, cardVars, serverVars>>

\* main's continuation is a microtask: it runs before any network callback
MainReady == pc = "await" /\ PromiseAll(promise) # "pending"

NetIdle == pc \in {"await", "done"} /\ ~MainReady

NetFrame ==
    /\ UNCHANGED <<NEWS_API_KEY, disk, requests, pc, html, readHtml,
                   usArticles, chinaArticles, log, caught, mainPromise>>
    /\ UNCHANGED <<replaceVars, stampVars, cardVars, serverVars>>

\* the response arrives: let data = ''
NetResponse(t) ==
    /\ NetIdle
    /\ inflight[t].stage = "requested"
    /\ inflight' = [inflight EXCEPT ![t] = [stage |-> "receiving", data |-> EmptyBody]]
    /\ UNCHANGED <<promise, delivered, settleLog>>
    /\ NetFrame

\* res.on('data'): data += chunk
NetData(t) ==
    /\ NetIdle
    /\ inflight[t].stage = "receiving"
    /\ inflight[t].data = EmptyBody
    /\ \E body \in Bodies :
          inflight' = [inflight EXCEPT ![t] = [stage |-> "receiving", data |-> body]]
    /\ UNCHANGED <<promise, delivered, settleLog>>
    /\ NetFrame

\* res.on('end')
NetEnd(t) ==
    /\ NetIdle
    /\ inflight[t].stage = "receiving"
    /\ promise' = [promise EXCEPT ![t] = Settle(@, OnEnd(inflight[t].data))]
    /\ settleLog' = [settleLog EXCEPT
                        ![t] = @ \o Logged(promise[t], OnEnd(inflight[t].data))]
    /\ delivered' = [delivered EXCEPT ![t] = Ended(inflight[t].data)]
    /\ inflight' = [inflight EXCEPT ![t] = Closed]
    /\ NetFrame

\* .on('error', reject)
NetError(t) ==
    /\ NetIdle
    /\ inflight[t].stage \in {"requested", "receiving"}
    /\ promise' = [promise EXCEPT ![t] = Settle(@, Rejected("network"))]
    /\ settleLog' = [settleLog EXCEPT
                        ![t] = @ \o Logged(promise[t], Rejected("network"))]
    /\ delivered' = [delivered EXCEPT ![t] = NetworkError]
    /\ inflight' = [inflight EXCEPT ![t] = Closed]
    /\ NetFrame

MainFrame ==
    /\ UNCHANGED <<NEWS_API_KEY, promise, inflight, requests, delivered,
                   settleLog>>
    /\ UNCHANGED <<replaceVars, stampVars, cardVars, serverVars>>

\* the await throws: catch (err), nothing read, nothing written
MainCatchRejection ==
    /\ pc = "await"
    /\ PromiseAll(promise) = "rejected"
    /\ pc' = "done" /\ caught' = TRUE /\ mainPromise' = "fulfilled"
    /\ UNCHANGED <<disk, html, readHtml, usArticles, chinaArticles, log>>
    /\ MainFrame

\* readFileSync throws: catch (err)
MainReadFails ==
    /\ pc = "await"
    /\ PromiseAll(promise) = "fulfilled"
    /\ usArticles' = promise["us"].value
    /\ chinaArticles' = promise["china"].value
    /\ log' = log \o <<"readFileSync throws">>
    /\ pc' = "done" /\ caught' = TRUE /\ mainPromise' = "fulfilled"
    /\ UNCHANGED <<disk, html, readHtml>>
    /\ MainFrame

\* the document main makes of the one it read
Patched(read, us, china) ==
    LET h1 == IF Len(us) # 0
              THEN replaceSection(read, "us", buildCards(us, Emoji("us")))
              ELSE read
        h2 == IF Len(china) # 0
              THEN replaceSection(h1, "china", buildCards(china, Emoji("china")))
              ELSE h1
    IN  updateLastModified(h2)

\* read, patch, stamp, write; writeFileSync may throw, and then leaves the
\* file as it was or cut short
MainUpdate ==
    /\ pc = "await"
    /\ PromiseAll(promise) = "fulfilled"
    /\ usArticles' = promise["us"].value
    /\ chinaArticles' = promise["china"].value
    /\ readHtml' = disk
    /\ html' = Patched(disk, promise["us"].value, promise["china"].value)
    /\ \/ /\ disk' = html'
          /\ log' = log \o <<"readFileSync", "writeFileSync">>
          /\ caught' = FALSE
       \/ /\ disk' \in {disk, <<>>}
          /\ log' = log \o <<"readFileSync", "writeFileSync throws">>
          /\ caught' = TRUE
    /\ pc' = "done" /\ mainPromise' = "fulfilled"
    /\ MainFrame

Next ==
    \/ MainStart
    \/ \E t \in Topics : NetResponse(t)
    \/ \E t \in Topics : NetData(t)
    \/ \E t \in Topics : NetEnd(t)
    \/ \E t \in Topics : NetError(t)
    \/ MainCatchRejection
    \/ MainReadFails
    \/ MainUpdate

Spec == Init /\ [][Next]_vars

Writes == {i \in 1..Len(log) : log[i] \in {"writeFileSync", "writeFileSync throws"}}
Reads == {i \in 1..Len(log) : log[i] \in {"readFileSync", "readFileSync throws"}}

\* C3: in a run of main index.html is written at most once, and only after
\* both fetchNews promises are fulfilled and the file was read; when either
\* fetch rejects, whichever settles first, the file is never written and the
\* error is caught, not propagated.
C3_WriteOnlyAfterJoin ==
    /\ Cardinality(Writes) <= 1
    /\ \A w \in Writes :
          /\ \A t \in Topics : promise[t].state = "fulfilled"
          /\ \E r \in Reads : r < w /\ log[r] = "readFileSync"
    /\ (\E t \in Topics : promise[t].state = "rejected") =>
          /\ Writes = {} /\ Reads = {}
          /\ readHtml = <<>>
          /\ pc = "done" => (caught /\ mainPromise = "fulfilled")
    /\ mainPromise # "rejected"

\* C3 witness: one fetch was rejected while the other was fulfilled with
\* articles, and main has ended without touching the file.
C3_Witness ==
    /\ pc = "done" /\ caught /\ log = <<>>
    /\ promise["china"].state = "rejected"
    /\ promise["us"].state = "fulfilled" /\ Len(promise["us"].value) > 0

\* C4: when a topic's fetch resolves to an empty list, the section of that
\* topic in the document main writes is the section of the document it read,
\* whatever the other fetch returned; buildCards of no article is empty.
C4_EmptyTopicUntouched ==
    /\ \A t \in Topics : buildCards(<<>>, Emoji(t)) = <<>>
    /\ \A t \in Topics :
          (/\ pc = "done" /\ Writes # {}
           /\ promise[t] = Resolved(<<>>)
           /\ Has(readHtml, SectionOpen(t))) =>
              SectionText(html, t) = SectionText(readHtml, t)

\* the settlement the claim gives for what the network handed over; body
\* null is parseable and its status is not 'ok'
Parseable(data) == data.syntax \in {"null", "number", "object"}
StatedOutcome(d, nullRejects) ==
    IF d.kind = "error" THEN "rejected"
    ELSE IF ~Parseable(d.data) THEN "rejected"
    ELSE IF nullRejects /\ d.data.syntax = "null" THEN "rejected"
    ELSE "fulfilled"
StatedValue(d) ==
    IF d.kind = "end" /\ d.data.syntax = "object" /\ d.data.status = "ok"
          /\ d.data.field = "array"
    THEN d.data.articles ELSE <<>>

FetchSettlesAsStated(t, nullRejects) ==
    /\ Len(settleLog[t]) <= 1
    /\ (promise[t].state = "pending") = (settleLog[t] = <<>>)
    /\ NEWS_API_KEY = "" =>
          /\ requests[t] = 0 /\ delivered[t] = Nothing
          /\ pc # "start" => promise[t] = Resolved(<<>>)
    /\ NEWS_API_KEY # "" =>
          /\ requests[t] = (IF pc = "start" THEN 0 ELSE 1)
          /\ (promise[t].state = "pending") = (delivered[t] = Nothing)
          /\ delivered[t] # Nothing =>
                /\ settleLog[t] = <<StatedOutcome(delivered[t], nullRejects)>>
                /\ promise[t].state = StatedOutcome(delivered[t], nullRejects)
                /\ promise[t].state = "fulfilled" =>
                      promise[t].value = StatedValue(delivered[t])

-----------------------------------------------------------------------------
(* The static server.  A path is a sequence of "/", ".", "?" and names     *)
(* (runs of other characters).                                              *)

\* __dirname
Dirname == <<"/", "srv", "/", "site", ".", "d">>

IndexUrl == <<"/", "index", ".", "html">>

\* the request targets the clients send
Urls ==
    {<<"/">>, IndexUrl,
     <<"/", "styles", ".", "css">>,
     <<"/", "app", ".", "js">>,
     <<"/", "app", ".", "min", ".", "js">>,
     <<"/", "logo", ".", "png">>,
     <<"/", "README">>,
     <<"/", ".", "js">>,
     <<"/", "missing", ".", "css">>,
     <<"/", "styles", ".", "css", "?", "v">>}

RECURSIVE Normalize(_)
\* path.normalize on a path without '.' and '..' segments: runs of '/' collapse
Normalize(path) ==
    IF Len(path) < 2 THEN path
    ELSE IF path[1] = "/" /\ path[2] = "/" THEN Normalize(Tail(path))
    ELSE <<path[1]>> \o Normalize(Tail(path))

\* path.join(a, b)
PathJoin(a, b) == Normalize(a \o <<"/">> \o b)

Max(S) == CHOOSE x \in S : \A y \in S : y <= x

\* the last segment of a path
Basename(path) ==
    LET slashes == {i \in 1..Len(path) : path[i] = "/"}
    IN  IF slashes = {} THEN path ELSE SubSeq(path, Max(slashes) + 1, Len(path))

\* path.extname: from the last '.' of the last segment to its end; empty when
\* there is no '.', when the segment starts with its only '.', or for '..'
extname(path) ==
    LET base == Basename(path)
        dots == {i \in 1..Len(base) : base[i] = "."}
    IN  IF dots = {} \/ Max(dots) = 1 \/ base = <<".", ".">> THEN <<>>
        ELSE SubSeq(base, Max(dots), Len(base))

TextHtml == "text/html; charset=utf-8"
TextCss == "text/css; charset=utf-8"
AppJs == "application/javascript; charset=utf-8"

\* the lookup without its .js entry
ContentTypeNoJs(ext) ==
    IF ext = <<".", "css">> THEN TextCss ELSE TextHtml
\* let contentType = 'text/html'; if (ext === '.css') ...; if (ext === '.js') ...
ContentType(ext) ==
    IF ext = <<".", "js">> THEN AppJs
    ELSE IF ext = <<".", "css">> THEN TextCss
    ELSE TextHtml

\* let filePath = req.url === '/' ? '/index.html' : req.url;
\* filePath = path.join(__dirname, filePath);
FilePath(url) == PathJoin(Dirname, IF url = <<"/">> THEN IndexUrl ELSE url)

\* the 404 page
NotFound ==
    [status |-> 404, contentType |-> TextHtml, body |-> <<"<h1>404</h1>">>]

\* the 200 response for a file that was read: its bytes are named by its path
Found(filePath) ==
    [status |-> 200, contentType |-> ContentType(extname(filePath)),
     body |-> filePath]

NoReq == [stage |-> "none", url |-> <<>>, filePath |-> <<>>, sent |-> <<>>]

InitServer ==
    /\ files = {FilePath(u) : u \in Urls \ {<<"/", "missing", ".", "css">>,
                                           <<"/", "styles", ".", "css", "?", "v">>}}
    /\ req = [r \in 1..MaxRequests |-> NoReq]
    /\ IdleReplace /\ IdleStamp /\ IdleCards /\ IdleMain

\* the request handler: choose the file and start reading it
Request(r, url) ==
    /\ req[r].stage = "none"
    /\ req' = [req EXCEPT ![r] = [stage |-> "reading", url |-> url,
                                  filePath |-> FilePath(url), sent |-> <<>>]]
    /\ UNCHANGED files
    /\ UNCHANGED <<replaceVars, stampVars, cardVars, mainVars>>

\* the callback of fs.readFile: err for a file that is not there, and for one
\* that is there but cannot be read
ReadDone(r, err) ==
    /\ req[r].stage = "reading"
    /\ req[r].filePath \notin files => err
    /\ req' = [req EXCEPT ![r].stage = "done",
                          ![r].sent = @ \o <<IF err THEN NotFound
                                             ELSE Found(req[r].filePath)>>]
    /\ UNCHANGED files
    /\ UNCHANGED <<replaceVars, stampVars, cardVars, mainVars>>

NextServer ==
    \/ \E r \in 1..MaxRequests, url \in Urls : Request(r, url)
    \/ \E r \in 1..MaxRequests, err \in BOOLEAN : ReadDone(r, err)

SpecServer == InitServer /\ [][NextServer]_vars

\* a path with the extension ext: it ends in ext, after a name
EndsIn(url, ext) ==
    /\ Len(url) > Len(ext) + 1
    /\ SubSeq(url, Len(url) - Len(ext) + 1, Len(url)) = ext
    /\ url[Len(url) - Len(ext)] \notin {"/", "."}

StatedType(url) ==
    IF EndsIn(url, <<".", "css">>) THEN TextCss
    ELSE IF EndsIn(url, <<".", "js">>) THEN AppJs
    ELSE TextHtml

\* the file a request asks for: '/' asks for what '/index.html' asks for
Target(url) == IF url = <<"/">> THEN IndexUrl ELSE url

\* C9: the server sends exactly one response to every request, whatever the
\* interleaving of requests and reads: none before the read ends and one
\* after; '/' is served the file '/index.html' is served; a read that
\* succeeds gives 200 with text/css for a .css path, application/javascript
\* for a .js path and text/html for any other; a read that fails, whatever
\* the cause, gives 404 with the fixed body.
C9_OneResponsePerRequest ==
    \A r \in 1..MaxRequests :
        /\ Len(req[r].sent) = (IF req[r].stage = "done" THEN 1 ELSE 0)
        /\ req[r].stage = "done" =>
              LET res == req[r].sent[1]
              IN  /\ res.status \in {200, 404}
                  /\ res.status = 404 => res = NotFound
                  /\ res.status = 200 =>
                        /\ res.contentType = StatedType(Target(req[r].url))
                        /\ res.body = Dirname \o Target(req[r].url)
                        /\ res.body \in files
                  /\ Dirname \o Target(req[r].url) \notin files =>
                        res.status = 404

\* C9 witness: of two requests, '/' was answered 200 with the bytes of
\* index.html as text/html and a missing .css file was answered 404.
C9_Witness ==
    /\ req[1].stage = "done" /\ req[1].url = <<"/">>
    /\ req[1].sent = <<[status |-> 200, contentType |-> TextHtml,
                        body |-> Dirname \o IndexUrl]>>
    /\ req[2].stage = "done" /\ req[2].url = <<"/", "missing", ".", "css">>
    /\ req[2].sent = <<NotFound>>

====
